---- MODULE Spec2Model ----
(***************************************************************************)
(* The chat widget of entitlement-chatbot: the popup controller            *)
(* (src/unnamed/part_000, mounted on the page of src/unnamed/part_001) and *)
(* the earlier full-page controller (src/app/static/script.js).  Both run  *)
(* on the browser's single-threaded event loop: every action below is one  *)
(* run-to-completion segment of a handler, cut at the handler's awaits.    *)
(*                                                                         *)
(* Strings are sequences of letters; a letter is a character or a fixed    *)
(* literal fragment of the source ("Error: ", "Status: ", ...).            *)
(***************************************************************************)
EXTENDS Integers, Sequences, FiniteSets, TLC

VARIABLES
    variant,      \* which controller is mounted: "popup" (part_000) or "page" (script.js)
    hidden,       \* chatPopup.classList.contains('hidden')
    toggles,      \* history: the number of toggleChat calls so far, modulo 2
    timers,       \* focus callbacks scheduled by setTimeout and not yet run
    userInput,    \* userInput.value
    transcript,   \* the children of chatbox, in document order
    exch,         \* one record per sendMessage call that passed validation
    nextNode,     \* identity of the next element document.createElement returns
    log,          \* what console.error has written
    fetches       \* history: the number of fetch calls so far

vars == <<variant, hidden, toggles, timers, userInput, transcript, exch, nextNode, log, fetches>>

----------------------------------------------------------------------------
(* Bounds of the model *)

MaxExchanges == 2
MaxTimers == 1

----------------------------------------------------------------------------
(* Strings *)

Space == " "

\* What the user may have typed into the input field: nothing, blanks only,
\* and a message with blanks before, inside and after it.
Inputs ==
    { <<>>,
      <<Space, Space>>,
      <<Space, "a", Space, "b", Space>> }

IsBlank(s) == \A i \in 1..Len(s) : s[i] = Space

RECURSIVE TrimStart(_)
TrimStart(s) ==
    IF s # <<>> /\ Head(s) = Space THEN TrimStart(Tail(s)) ELSE s

RECURSIVE TrimEnd(_)
TrimEnd(s) ==
    IF s # <<>> /\ s[Len(s)] = Space THEN TrimEnd(SubSeq(s, 1, Len(s) - 1)) ELSE s

\* Mutants of trim(): the value taken as typed; only the leading blanks cut.
TrimSkipped(s) == s
TrimLeadingOnly(s) == TrimStart(s)

\* String.prototype.trim
Trim(s) == TrimEnd(TrimStart(s))

Contains(s, sub) ==
    \E i \in 0..(Len(s) - Len(sub)) : SubSeq(s, i + 1, i + Len(sub)) = sub

Digits == <<"0", "1", "2", "3", "4", "5", "6", "7", "8", "9">>

RECURSIVE Decimal(_)
Decimal(n) ==
    IF n < 10 THEN <<Digits[n + 1]>>
    ELSE Append(Decimal(n \div 10), Digits[(n % 10) + 1])

----------------------------------------------------------------------------
(* JavaScript values, as far as the handlers look at them *)

JUndefined == [t |-> "undefined", s |-> <<>>, n |-> 0]
JNull == [t |-> "null", s |-> <<>>, n |-> 0]
JObject == [t |-> "object", s |-> <<>>, n |-> 0]
JStr(str) == [t |-> "string", s |-> str, n |-> 0]
JNum(num) == [t |-> "number", s |-> <<>>, n |-> num]
JBool(b) == [t |-> "boolean", s |-> <<>>, n |-> IF b THEN 1 ELSE 0]

\* ToBoolean: what `a && b` and `a || b` test.
Truthy(v) ==
    CASE v.t = "undefined" -> FALSE
      [] v.t = "null" -> FALSE
      [] v.t = "string" -> v.s # <<>>
      [] v.t = "number" -> v.n # 0
      [] v.t = "boolean" -> v.n = 1
      [] OTHER -> TRUE

\* ToString: what a template literal and the textContent setter apply.
JsString(v) ==
    CASE v.t = "undefined" -> <<"undefined">>
      [] v.t = "null" -> <<"null">>
      [] v.t = "string" -> v.s
      [] v.t = "number" -> Decimal(v.n)
      [] v.t = "boolean" -> IF v.n = 1 THEN <<"true">> ELSE <<"false">>
      [] OTHER -> <<"[object Object]">>

\* a || b
OrElse(a, b) == IF Truthy(a) THEN a ELSE b

----------------------------------------------------------------------------
(* The HTTP response the server may send *)

\* A response body: whether it is JSON at all, the value it parses to, and,
\* when that value is an object, its reply and error properties.
InvalidBody == [valid |-> FALSE, top |-> JUndefined, reply |-> JUndefined, error |-> JUndefined]
ValueBody(v) == [valid |-> TRUE, top |-> v, reply |-> JUndefined, error |-> JUndefined]
ObjectBody(r, e) == [valid |-> TRUE, top |-> JObject, reply |-> r, error |-> e]

HiThere == <<"Hi there">>
DbDown == <<"db down">>

\* Bodies that are not JSON, JSON null, and objects with or without a reply.
ReplyBodies ==
    { InvalidBody,
      ValueBody(JNull),
      ObjectBody(JUndefined, JUndefined),
      ObjectBody(JStr(HiThere), JUndefined),
      ObjectBody(JNum(5), JUndefined) }

\* Bodies that are not JSON, JSON null, and objects with or without an error.
ErrorBodies ==
    { InvalidBody,
      ValueBody(JNull),
      ObjectBody(JUndefined, JUndefined),
      ObjectBody(JUndefined, JStr(DbDown)) }

StatusOk == [status |-> 200, statusText |-> <<"OK">>]
StatusServerError == [status |-> 500, statusText |-> <<"Internal Server Error">>]

NoResponse == [kind |-> "none", status |-> 0, statusText |-> <<>>, body |-> InvalidBody, message |-> <<>>]
Response(line, body) ==
    [kind |-> "response", status |-> line.status, statusText |-> line.statusText,
     body |-> body, message |-> <<>>]
Rejected(msg) == [kind |-> "rejected", status |-> 0, statusText |-> <<>>, body |-> InvalidBody, message |-> msg]

Responses ==
    { Response(StatusOk, b) : b \in ReplyBodies }
        \cup { Response(StatusServerError, b) : b \in ErrorBodies }

\* response.ok
Ok(r) == r.status \in 200..299

\* The messages of the exceptions the handler can meet.
FailedToFetch == <<"Failed to fetch">>
UnexpectedToken == <<"Unexpected token">>
CannotReadNull == <<"Cannot read properties of null">>

FetchErrors == { FailedToFetch }

----------------------------------------------------------------------------
(* The fixed texts of the two controllers *)

Greeting == <<"Hello! How can I help you with entitlements today?">>

\* The text of the thinking indicator: three dot elements and no text in the
\* popup, the literal '...' in the page controller.
ThinkingText(v) == IF v = "popup" THEN <<>> ELSE <<"...">>

InvalidResponseText(v) ==
    IF v = "popup" THEN <<"Received an empty or invalid response.">>
    ELSE <<"Received an empty or invalid response from the server.">>

ConnectionErrorText(v, message) ==
    IF v = "popup" THEN <<"Connection error. Please try again later.">>
    ELSE <<"Network error or failed to connect to the server. (">> \o message \o <<")">>

ApiErrorLabel(v) == IF v = "popup" THEN "API Error:" ELSE "API Error Response:"

\* `HTTP error! Status: ${response.status}`
HttpErrorText(status) == <<"HTTP error! ", "Status: ">> \o Decimal(status)

\* `Error: ${errorData.error || response.statusText}`
ErrorText(errorData, statusText) ==
    <<"Error: ">> \o JsString(OrElse(errorData.error, JStr(statusText)))

----------------------------------------------------------------------------
(* The transcript: the children of chatbox *)

Entry(node, sender, text, e) == [node |-> node, sender |-> sender, text |-> text, ex |-> e]

\* chatbox.contains(element)
ChatboxContains(box, node) == \E i \in 1..Len(box) : box[i].node = node

\* Mutant: the indicators are looked up by their content, not by the
\* element the call holds, so every indicator in the chatbox goes.
RemoveChildByContent(box, node) ==
    SelectSeq(box, LAMBDA x : ~(x.sender = "bot" /\ x.node # 0 /\ x.text = ThinkingText(variant)))

\* chatbox.removeChild(element)
RemoveChild(box, node) == SelectSeq(box, LAMBDA x : x.node # node)

\* Mutant: the indicator is left in the chatbox.
RemoveIndicatorSkipped(box, node) == box

\* if (chatbox.contains(thinkingElement)) chatbox.removeChild(thinkingElement)
RemoveIndicator(box, node) ==
    IF ChatboxContains(box, node) THEN RemoveChild(box, node) ELSE box

\* Mutant: the new element is inserted before the first child.
addMessageToChatboxOnTop(box, node, message, sender, e) ==
    <<Entry(node, sender, message, e)>> \o box

\* addMessageToChatbox(message, sender), called by exchange e: the new element
\* is appended as the last child.
addMessageToChatbox(box, node, message, sender, e) ==
    Append(box, Entry(node, sender, message, e))

\* Mutant: the indicator element is created and never appended.
addThinkingIndicatorDetached(box, node, e) == box

\* addThinkingIndicator() in the popup, addMessageToChatbox('...', 'bot') in
\* the page controller.
addThinkingIndicator(box, node, e) ==
    Append(box, Entry(node, "bot", ThinkingText(variant), e))

----------------------------------------------------------------------------
(* Initial state: the page of part_001 as loaded, the controller mounted *)

Init ==
    /\ variant \in {"popup", "page"}
    /\ hidden = TRUE
    /\ toggles = 0
    /\ timers = 0
    /\ userInput = <<>>
    /\ transcript = <<Entry(0, "bot", Greeting, 0)>>
    /\ exch = <<>>
    /\ nextNode = 1
    /\ log = <<>>
    /\ fetches = 0

----------------------------------------------------------------------------
(* The user edits the input field *)

Type(s) ==
    /\ s # userInput
    /\ userInput' = s
    /\ UNCHANGED <<variant, hidden, toggles, timers, transcript, exch, nextNode, log, fetches>>

----------------------------------------------------------------------------
(* Panel visibility *)

\* Mutant: the class is removed whether it is there or not.
toggleChatShowsOnly ==
    /\ variant = "popup"
    /\ timers < MaxTimers
    /\ hidden' = FALSE
    /\ timers' = timers + 1
    /\ toggles' = (toggles + 1) % 2
    /\ UNCHANGED <<variant, userInput, transcript, exch, nextNode, log, fetches>>

\* toggleChat, the click listener of chatButton and of closeButton alike
toggleChat ==
    /\ variant = "popup"
    /\ IF hidden
       THEN /\ timers < MaxTimers
            /\ hidden' = FALSE
            /\ timers' = timers + 1
       ELSE /\ hidden' = TRUE
            /\ timers' = timers
    /\ toggles' = (toggles + 1) % 2
    /\ UNCHANGED <<variant, userInput, transcript, exch, nextNode, log, fetches>>

\* Mutant: the delayed callback also gives up on the open requests and takes
\* their indicators out of the chatbox.
focusTimeoutAbandons ==
    /\ timers > 0
    /\ timers' = timers - 1
    /\ transcript' = SelectSeq(transcript,
                         LAMBDA x : ~\E e \in 1..Len(exch) : exch[e].thinking = x.node)
    /\ UNCHANGED <<variant, hidden, toggles, userInput, exch, nextNode, log, fetches>>

\* The callback of setTimeout(() => userInput.focus(), 100): the focus moves,
\* nothing of the controller's state changes but the timer being spent.
focusTimeout ==
    /\ timers > 0
    /\ timers' = timers - 1
    /\ UNCHANGED <<variant, hidden, toggles, userInput, transcript, exch, nextNode, log, fetches>>

----------------------------------------------------------------------------
(* The message exchange: sendMessage, cut at its awaits *)

LogEntry(label, e, detail) == [label |-> label, ex |-> e, detail |-> detail]

Exchange(query, userNode, thinkingNode) ==
    [query |-> query, user |-> userNode, thinking |-> thinkingNode,
     pc |-> "fetch", resp |-> NoResponse]

\* What console.error shows of errorData.
Shown(data) == IF data.top.t = "object" THEN JsString(data.error) ELSE JsString(data.top)

\* response.json().catch(() => ({ error: `HTTP error! Status: ${response.status}` }))
ErrorData(r) ==
    IF r.body.valid THEN r.body
    ELSE ObjectBody(JUndefined, JStr(HttpErrorText(r.status)))

\* Reading a property of a parsed value throws on null (and on undefined).
PropertyThrows(data) == data.top.t \in {"null", "undefined"}

\* Mutants of the reply test: the wrong property read; only `data` tested.
HasReplyWrongField(data) == Truthy(data.top) /\ Truthy(data.error)
HasReplyDataOnly(data) == Truthy(data.top)

\* data && data.reply
HasReply(data) == Truthy(data.top) /\ Truthy(data.reply)

\* Mutant: a submit returns while an earlier exchange has not ended.
sendMessageSerialized ==
    LET userMessage == Trim(userInput) IN
    IF userMessage = <<>> \/ \E f \in 1..Len(exch) : exch[f].pc # "done"
    THEN UNCHANGED vars
    ELSE /\ Len(exch) < MaxExchanges
         /\ LET e == Len(exch) + 1
                shown == addMessageToChatbox(transcript, nextNode, userMessage, "user", e)
            IN  /\ transcript' = addThinkingIndicator(shown, nextNode + 1, e)
                /\ exch' = Append(exch, Exchange(userMessage, nextNode, nextNode + 1))
         /\ userInput' = <<>>
         /\ nextNode' = nextNode + 2
         /\ fetches' = fetches + 1
         /\ UNCHANGED <<variant, hidden, toggles, timers, log>>

\* sendMessage up to `await fetch(...)`: validation, the user's message, the
\* thinking indicator, the request.
sendMessage ==
    LET userMessage == Trim(userInput) IN
    IF userMessage = <<>>
    THEN UNCHANGED vars
    ELSE /\ Len(exch) < MaxExchanges
         /\ LET e == Len(exch) + 1
                shown == addMessageToChatbox(transcript, nextNode, userMessage, "user", e)
            IN  /\ transcript' = addThinkingIndicator(shown, nextNode + 1, e)
                /\ exch' = Append(exch, Exchange(userMessage, nextNode, nextNode + 1))
         /\ userInput' = <<>>
         /\ nextNode' = nextNode + 2
         /\ fetches' = fetches + 1
         /\ UNCHANGED <<variant, hidden, toggles, timers, log>>

\* Mutant: no catch block, the exception leaves sendMessage.
CatchAbsent(e, box, message) ==
    /\ transcript' = box
    /\ log' = log
    /\ nextNode' = nextNode

\* Mutant: the catch block logs the error and renders nothing.
CatchSilent(e, box, message) ==
    /\ transcript' = RemoveIndicator(box, exch[e].thinking)
    /\ log' = Append(log, LogEntry("Fetch Error:", e, message))
    /\ nextNode' = nextNode

\* The catch block: the indicator (if still there), the log, the message.
Catch(e, box, message) ==
    /\ transcript' = addMessageToChatbox(RemoveIndicator(box, exch[e].thinking), nextNode,
                                         ConnectionErrorText(variant, message), "error", e)
    /\ log' = Append(log, LogEntry("Fetch Error:", e, message))
    /\ nextNode' = nextNode + 1

\* Mutant: the input field is cleared when the response arrives instead of
\* when the message is sent.
fetchResolvesClearsInput(e, r) ==
    /\ exch[e].pc = "fetch"
    /\ transcript' = RemoveIndicator(transcript, exch[e].thinking)
    /\ exch' = [exch EXCEPT ![e].resp = r, ![e].pc = IF Ok(r) THEN "json" ELSE "errorJson"]
    /\ userInput' = <<>>
    /\ UNCHANGED <<variant, hidden, toggles, timers, nextNode, log, fetches>>

\* fetch resolves with a response: the indicator is removed and the handler
\* awaits response.json() on either branch.
fetchResolves(e, r) ==
    /\ exch[e].pc = "fetch"
    /\ transcript' = RemoveIndicator(transcript, exch[e].thinking)
    /\ exch' = [exch EXCEPT ![e].resp = r, ![e].pc = IF Ok(r) THEN "json" ELSE "errorJson"]
    /\ UNCHANGED <<variant, hidden, toggles, timers, userInput, nextNode, log, fetches>>

\* Mutant: a rejected fetch is issued again instead of being reported.
fetchRejectsRetries(e, message) ==
    /\ exch[e].pc = "fetch"
    /\ fetches < 2 * MaxExchanges
    /\ fetches' = fetches + 1
    /\ log' = Append(log, LogEntry("Fetch Error:", e, message))
    /\ UNCHANGED <<variant, hidden, toggles, timers, userInput, transcript, exch, nextNode>>

\* fetch rejects: no response was received.
fetchRejects(e, message) ==
    /\ exch[e].pc = "fetch"
    /\ Catch(e, transcript, message)
    /\ exch' = [exch EXCEPT ![e].resp = Rejected(message), ![e].pc = "done"]
    /\ UNCHANGED <<variant, hidden, toggles, timers, userInput, fetches>>

\* Mutant: the error branch lacks its return and falls into the second
\* response.json(), which rejects because the body was already read.
errorBodyReadNoReturn(e) ==
    /\ exch[e].pc = "errorJson"
    /\ LET r == exch[e].resp
           errorData == ErrorData(r)
           logged == Append(log, LogEntry(ApiErrorLabel(variant), e, Shown(errorData)))
           shown == IF PropertyThrows(errorData)
                    THEN transcript
                    ELSE addMessageToChatbox(transcript, nextNode,
                                             ErrorText(errorData, r.statusText), "error", e)
       IN  /\ transcript' = addMessageToChatbox(
                                 RemoveIndicator(shown, exch[e].thinking), nextNode + 1,
                                 ConnectionErrorText(variant, CannotReadNull), "error", e)
           /\ log' = Append(logged, LogEntry("Fetch Error:", e, CannotReadNull))
    /\ nextNode' = nextNode + 2
    /\ exch' = [exch EXCEPT ![e].pc = "done"]
    /\ UNCHANGED <<variant, hidden, toggles, timers, userInput, fetches>>

\* if (!response.ok) { ... } after its await
errorBodyRead(e) ==
    /\ exch[e].pc = "errorJson"
    /\ LET r == exch[e].resp
           errorData == ErrorData(r)
           logged == Append(log, LogEntry(ApiErrorLabel(variant), e, Shown(errorData)))
       IN  IF PropertyThrows(errorData)
           THEN /\ transcript' = addMessageToChatbox(
                                     RemoveIndicator(transcript, exch[e].thinking), nextNode,
                                     ConnectionErrorText(variant, CannotReadNull), "error", e)
                /\ log' = Append(logged, LogEntry("Fetch Error:", e, CannotReadNull))
           ELSE /\ transcript' = addMessageToChatbox(transcript, nextNode,
                                     ErrorText(errorData, r.statusText), "error", e)
                /\ log' = logged
    /\ nextNode' = nextNode + 1
    /\ exch' = [exch EXCEPT ![e].pc = "done"]
    /\ UNCHANGED <<variant, hidden, toggles, timers, userInput, fetches>>

\* Mutant: the panel is shown when the body of a response has been read.
bodyReadShowsPanel(e) ==
    /\ exch[e].pc = "json"
    /\ LET data == exch[e].resp.body
       IN  IF ~data.valid
           THEN Catch(e, transcript, UnexpectedToken)
           ELSE /\ transcript' =
                       IF HasReply(data)
                       THEN addMessageToChatbox(transcript, nextNode, JsString(data.reply), "bot", e)
                       ELSE addMessageToChatbox(transcript, nextNode,
                                                InvalidResponseText(variant), "error", e)
                /\ nextNode' = nextNode + 1
                /\ log' = log
    /\ exch' = [exch EXCEPT ![e].pc = "done"]
    /\ hidden' = FALSE
    /\ UNCHANGED <<variant, toggles, timers, userInput, fetches>>

\* const data = await response.json(); if (data && data.reply) ... else ...
bodyRead(e) ==
    /\ exch[e].pc = "json"
    /\ LET data == exch[e].resp.body
       IN  IF ~data.valid
           THEN Catch(e, transcript, UnexpectedToken)
           ELSE /\ transcript' =
                       IF HasReply(data)
                       THEN addMessageToChatbox(transcript, nextNode, JsString(data.reply), "bot", e)
                       ELSE addMessageToChatbox(transcript, nextNode,
                                                InvalidResponseText(variant), "error", e)
                /\ nextNode' = nextNode + 1
                /\ log' = log
    /\ exch' = [exch EXCEPT ![e].pc = "done"]
    /\ UNCHANGED <<variant, hidden, toggles, timers, userInput, fetches>>

----------------------------------------------------------------------------

Next ==
    \/ \E s \in Inputs : Type(s)
    \/ toggleChat
    \/ focusTimeout
    \/ sendMessage
    \/ \E e \in 1..Len(exch), r \in Responses : fetchResolves(e, r)
    \/ \E e \in 1..Len(exch), m \in FetchErrors : fetchRejects(e, m)
    \/ \E e \in 1..Len(exch) : errorBodyRead(e)
    \/ \E e \in 1..Len(exch) : bodyRead(e)

Spec == Init /\ [][Next]_vars

\* The continuations of one sendMessage call.  The browser runs a continuation
\* once its promise has settled; that every fetch and every body read does
\* settle is the environment assumption of the liveness properties.
Settles(e) ==
    \/ \E r \in Responses : fetchResolves(e, r)
    \/ \E m \in FetchErrors : fetchRejects(e, m)
    \/ errorBodyRead(e)
    \/ bodyRead(e)

FairSpec == Spec /\ \A e \in 1..MaxExchanges : WF_vars(e \in 1..Len(exch) /\ Settles(e))

----------------------------------------------------------------------------
(* Vocabulary of the properties *)

Exchanges == 1..Len(exch)
Positions == 1..Len(transcript)

\* The roles of the conversation entries: an element is pending while it is
\* the thinking indicator of an exchange, otherwise its role is its sender.
IsIndicator(x) == \E e \in Exchanges : exch[e].thinking = x.node
Role(x) == IF IsIndicator(x) THEN "pending" ELSE x.sender

PendingAt == {i \in Positions : IsIndicator(transcript[i])}
IndicatorAt(e) == {i \in Positions : transcript[i].node = exch[e].thinking}
UserAt(e) == {i \in Positions : transcript[i].ex = e /\ Role(transcript[i]) = "user"}
TerminalAt(e) ==
    {i \in Positions : /\ transcript[i].ex = e
                       /\ Role(transcript[i]) \in {"bot", "error"}}

InFlight == {e \in Exchanges : exch[e].pc # "done"}

\* t is s without its leading and trailing blanks.
Blanks(n) == [i \in 1..n |-> Space]
IsTrimOf(t, s) ==
    /\ \E i, j \in 0..Len(s) : s = Blanks(i) \o t \o Blanks(j)
    /\ t # <<>> => (t[1] # Space /\ t[Len(t)] # Space)

----------------------------------------------------------------------------
(* C1: a submit whose input is empty after trimming is a no-op: it leaves the
   transcript, the requests, the log and the input field as they are, in every
   state, also while exchanges are in flight. *)
C1_BlankSubmitIsNoOp ==
    [][(IsBlank(userInput) /\ sendMessage)
          => UNCHANGED <<transcript, exch, nextNode, log, userInput, fetches>>]_vars

\* A blank, non-empty input sits in the field while an exchange is in flight:
\* sendMessage is enabled here and its step ends in this same state.
C1_Witness ==
    /\ userInput # <<>>
    /\ IsBlank(userInput)
    /\ \E e \in Exchanges : exch[e].pc = "fetch"
    /\ ENABLED sendMessage

----------------------------------------------------------------------------
(* C2: every submit whose trimmed input is non-empty appends exactly one user
   entry carrying the trimmed text, in the segment that dispatches the request
   and ahead of it (the entry precedes the indicator the request is tied to);
   the query of the request is the text of that entry; and from then on the
   exchange has that one user entry. *)
C2_SubmitStep ==
    (~IsBlank(userInput) /\ sendMessage) =>
        /\ Len(exch') = Len(exch) + 1
        /\ Len(transcript') = Len(transcript) + 2
        /\ SubSeq(transcript', 1, Len(transcript)) = transcript
        /\ LET e == Len(exch')
               u == transcript'[Len(transcript) + 1]
           IN  /\ u.sender = "user"
               /\ u.node = exch'[e].user
               /\ u.ex = e
               /\ IsTrimOf(u.text, userInput)
               /\ exch'[e].query = u.text
               /\ exch'[e].pc = "fetch"
               /\ transcript'[Len(transcript) + 2].node = exch'[e].thinking

C2_OneUserEntry ==
    \A e \in Exchanges :
        /\ Cardinality(UserAt(e)) = 1
        /\ \A i \in UserAt(e) : /\ transcript[i].text = exch[e].query
                                /\ transcript[i].node = exch[e].user
                                /\ \A j \in IndicatorAt(e) \cup TerminalAt(e) : i < j

C2_UserEntryThenRequest == [][C2_SubmitStep]_vars /\ []C2_OneUserEntry

\* A request is out whose query is the input " a b " without the blanks
\* around it.
C2_Witness ==
    \E e \in Exchanges :
        /\ exch[e].query = <<"a", Space, "b">>
        /\ exch[e].pc = "fetch"
        /\ \E i \in UserAt(e) : transcript[i].text = <<"a", Space, "b">>

----------------------------------------------------------------------------
(* C3: in no reachable state does the transcript hold both the pending
   indicator and a terminal entry (bot or error) of the same exchange. *)
C3_IndicatorGoneBeforeTerminal ==
    \A e \in Exchanges : IndicatorAt(e) = {} \/ TerminalAt(e) = {}

\* Two exchanges ended, one through the catch block after a response had
\* arrived and one through a rendered reply.
C3_Witness ==
    \E e, f \in Exchanges :
        /\ exch[e].pc = "done" /\ exch[e].resp.kind = "response" /\ ~exch[e].resp.body.valid
        /\ exch[f].pc = "done" /\ exch[f].resp.kind = "rejected"
        /\ TerminalAt(e) # {} /\ TerminalAt(f) # {}

----------------------------------------------------------------------------
(* C4: when two or more submissions are out before any of them has settled
   and every network call settles, then, whatever the order of the
   settlements, a state follows in which every exchange has exactly one
   terminal entry and the transcript holds no pending indicator. *)
C4_SeveralUnsettled ==
    /\ Len(exch) >= 2
    /\ \A e \in Exchanges : exch[e].pc = "fetch"

C4_AllRendered ==
    /\ PendingAt = {}
    /\ \A e \in Exchanges : Cardinality(TerminalAt(e)) = 1

C4_ConcurrentExchangesSettle == C4_SeveralUnsettled ~> C4_AllRendered

\* Both exchanges have ended, the later one first, one of them in the catch block.
C4_Witness ==
    /\ Len(exch) = 2
    /\ C4_AllRendered
    /\ \A e \in Exchanges : exch[e].pc = "done"
    /\ \E i \in TerminalAt(2), j \in TerminalAt(1) : i < j
    /\ \E e \in Exchanges : exch[e].resp.kind = "rejected"

----------------------------------------------------------------------------
(* C5, as claimed: the transcript never holds two pending entries. *)
C5_AtMostOnePending == Cardinality(PendingAt) <= 1

(* C5, amended: each exchange has at most one pending entry, and the pending
   entries are exactly the indicators of the exchanges whose fetch has not
   settled; two submits before a settlement give two pending entries. *)
C5_OnePendingPerOpenFetch ==
    /\ \A e \in Exchanges :
           Cardinality(IndicatorAt(e)) = IF exch[e].pc = "fetch" THEN 1 ELSE 0
    /\ Cardinality(PendingAt) = Cardinality({e \in Exchanges : exch[e].pc = "fetch"})

C5_Witness ==
    /\ Cardinality(PendingAt) = 2
    /\ \A e \in Exchanges : exch[e].pc = "fetch"

----------------------------------------------------------------------------
(* Outcomes of a finished exchange *)

Done(e) == exch[e].pc = "done"
GotResponse(e) == exch[e].resp.kind = "response"
OkResponse(e) == GotResponse(e) /\ Ok(exch[e].resp)
ErrorResponse(e) == GotResponse(e) /\ ~Ok(exch[e].resp)
Body(e) == exch[e].resp.body

\* The exchange has one terminal entry, of the given role, whose text satisfies P.
Rendered(e, role, P(_)) ==
    /\ Cardinality(TerminalAt(e)) = 1
    /\ \A i \in TerminalAt(e) : Role(transcript[i]) = role /\ P(transcript[i].text)

\* The texts the catch block renders.
IsConnectionFailure(text) ==
    \E m \in {FailedToFetch, UnexpectedToken, CannotReadNull} :
        text = ConnectionErrorText(variant, m)

----------------------------------------------------------------------------
(* C6: an exchange settled with an OK status and a body whose reply is a
   non-empty string ends with one terminal entry of role bot whose text is
   that string, unchanged. *)
C6_ReplyVerbatim ==
    \A e \in Exchanges :
        (/\ Done(e) /\ OkResponse(e) /\ Body(e).valid
         /\ Body(e).reply.t = "string" /\ Body(e).reply.s # <<>>)
            => Rendered(e, "bot", LAMBDA text : text = Body(e).reply.s)

C6_Witness ==
    \E e \in Exchanges :
        /\ Done(e) /\ OkResponse(e)
        /\ Body(e) = ObjectBody(JStr(HiThere), JUndefined)
        /\ \E i \in TerminalAt(e) : transcript[i].text = HiThere

----------------------------------------------------------------------------
(* C7, as claimed: an exchange settled with an OK status and a JSON body whose
   reply is absent or not a string ends with a terminal entry of role error
   and no bot entry. *)
C7_NonStringReplyIsError ==
    \A e \in Exchanges :
        (Done(e) /\ OkResponse(e) /\ Body(e).valid /\ Body(e).reply.t # "string")
            => Rendered(e, "error", LAMBDA text : TRUE)

----------------------------------------------------------------------------
(* C8, as claimed: an exchange settled with an OK status and a body that lacks
   a reply or cannot be parsed ends with an error entry carrying the fixed
   "empty or invalid response" message. *)
LacksReply(e) == Body(e).valid /\ Body(e).reply.t = "undefined"

----------------------------------------------------------------------------
(* C9, as claimed: an exchange settled with a non-OK status ends, whatever the
   body, with one error entry that is not the connection-failure entry and
   whose text contains the body's error when the body parses and has one, the
   status line when it parses and has none, and "HTTP error! Status: <code>"
   when it does not parse. *)
C9_HttpErrorRendered ==
    \A e \in Exchanges :
        (Done(e) /\ ErrorResponse(e)) =>
            LET r == exch[e].resp
                expected ==
                    IF ~r.body.valid THEN HttpErrorText(r.status)
                    ELSE IF Truthy(r.body.error) THEN JsString(r.body.error)
                    ELSE r.statusText
            IN  Rendered(e, "error",
                         LAMBDA text : ~IsConnectionFailure(text) /\ Contains(text, expected))

----------------------------------------------------------------------------
(* C10, as claimed: an exchange whose fetch was rejected ends with one error
   entry whose text contains nothing of the exception's message; the message
   is in the log. *)
C10_NoExceptionTextShown ==
    \A e \in Exchanges :
        (Done(e) /\ exch[e].resp.kind = "rejected") =>
            /\ Rendered(e, "error", LAMBDA text : ~Contains(text, exch[e].resp.message))
            /\ \E k \in 1..Len(log) : log[k].ex = e /\ log[k].detail = exch[e].resp.message

----------------------------------------------------------------------------
(* C11: after an exchange has failed (non-OK status, invalid or unparsable
   body, JSON null body, rejected fetch) no exception has left sendMessage and
   the widget is usable: a non-empty submit still appends its user entry and
   its indicator and dispatches its request, every later exchange that is not
   finished has a continuation to run, and a finished one has exactly one
   terminal entry. *)
Failed(e) ==
    /\ Done(e)
    /\ \E i \in TerminalAt(e) : Role(transcript[i]) = "error"

C11_SubmitAfterFailure ==
    ((\E e \in Exchanges : Failed(e)) /\ ~IsBlank(userInput) /\ sendMessage) =>
        /\ Len(exch') = Len(exch) + 1
        /\ Len(transcript') = Len(transcript) + 2
        /\ transcript'[Len(transcript) + 1].sender = "user"
        /\ transcript'[Len(transcript) + 2].node = exch'[Len(exch')].thinking
        /\ exch'[Len(exch')].pc = "fetch"
        /\ fetches' = fetches + 1

C11_LaterExchangeEnds ==
    \A e, f \in Exchanges :
        (Failed(e) /\ e < f) =>
            /\ Cardinality(UserAt(f)) = 1
            /\ ~Done(f) => ENABLED Settles(f)
            /\ Done(f) => Cardinality(TerminalAt(f)) = 1

C11_UsableAfterFailure == [][C11_SubmitAfterFailure]_vars /\ []C11_LaterExchangeEnds

\* The first exchange failed on a JSON null body of a non-OK response; the
\* second was submitted after that and has ended with its one terminal entry.
C11_Witness ==
    /\ Len(exch) = 2
    /\ Failed(1) /\ ErrorResponse(1) /\ Body(1) = ValueBody(JNull)
    /\ Done(2) /\ Cardinality(TerminalAt(2)) = 1
    /\ \A i \in TerminalAt(1), j \in UserAt(2) : i < j

----------------------------------------------------------------------------
(* C12: the transcript is append-only but for the pending indicators: on every
   step the sequence of the non-pending entries only grows at its end, and an
   indicator that has been removed does not come back. *)
NonPending(box, ex) ==
    SelectSeq(box, LAMBDA x : ~\E e \in 1..Len(ex) : ex[e].thinking = x.node)

C12_Step ==
    LET before == NonPending(transcript, exch)
        after == NonPending(transcript', exch')
    IN  /\ Len(before) <= Len(after)
        /\ SubSeq(after, 1, Len(before)) = before
        /\ \A e \in Exchanges :
               IndicatorAt(e) = {} => ~ChatboxContains(transcript', exch[e].thinking)

C12_AppendOnly == [][C12_Step]_vars

\* Greeting, a user entry, its terminal entry, then a second user entry whose
\* indicator is still there.
C12_Witness ==
    /\ Len(exch) = 2
    /\ Done(1) /\ exch[2].pc = "fetch"
    /\ Len(NonPending(transcript, exch)) = 4
    /\ Len(transcript) = 5

----------------------------------------------------------------------------
(* C13: toggleChat flips the panel state, whichever button called it: every
   toggle step turns hidden into its opposite, so the panel is closed exactly
   after an even number of toggles from the closed initial state, and two
   toggles from any state give that state back. *)
C13_ToggleFlips == toggleChat => (hidden' = ~hidden)

C13_ClosedIffEven == hidden = (toggles = 0)

C13_ToggleTwiceReturns == [][C13_ToggleFlips]_vars /\ []C13_ClosedIffEven

\* Opened and closed again before the focus callback of the opening has run.
C13_Witness ==
    /\ variant = "popup"
    /\ hidden
    /\ toggles = 0
    /\ timers = 1

----------------------------------------------------------------------------
(* C14: on every way an exchange can end, its indicator is removed once and
   one terminal entry is appended after the removal.  While the fetch is open
   the exchange has its indicator and no terminal entry; between the response
   and the body it has neither; once ended it has no indicator and exactly one
   terminal entry.  The indicator leaves the chatbox only in the step that
   ends the fetch, and a removed indicator never comes back, also when the
   catch block runs after the removal in the try block. *)
C14_Bookkeeping ==
    \A e \in Exchanges :
        /\ Cardinality(IndicatorAt(e)) = (IF exch[e].pc = "fetch" THEN 1 ELSE 0)
        /\ Cardinality(TerminalAt(e)) = (IF Done(e) THEN 1 ELSE 0)

C14_RemovalStep ==
    \A e \in Exchanges :
        LET there == ChatboxContains(transcript, exch[e].thinking)
            thereAfter == ChatboxContains(transcript', exch[e].thinking)
        IN  /\ ~there => ~thereAfter
            /\ (there /\ ~thereAfter) => (exch[e].pc = "fetch" /\ exch'[e].pc # "fetch")
            /\ (TerminalAt(e) = {} /\ Done(e)') =>
                   /\ ~thereAfter
                   /\ Len(transcript') = Len(RemoveIndicator(transcript, exch[e].thinking)) + 1
                   /\ transcript'[Len(transcript')].ex = e

C14_OneRemovalOneTerminal == [][C14_RemovalStep]_vars /\ []C14_Bookkeeping

\* Two exchanges have ended through the catch block after the try block had
\* removed the indicator: an error status with body null, and an OK status
\* with a body that is not JSON.
C14_Witness ==
    /\ Len(exch) = 2
    /\ \E e, f \in Exchanges :
           /\ Done(e) /\ ErrorResponse(e) /\ Body(e) = ValueBody(JNull)
           /\ Done(f) /\ OkResponse(f) /\ ~Body(f).valid
    /\ \A e \in Exchanges : Cardinality(TerminalAt(e)) = 1 /\ IndicatorAt(e) = {}

----------------------------------------------------------------------------
(* C15: exchanges do not interfere.  A step of one exchange's continuation
   changes the chatbox by removing that exchange's own indicator (if it is
   there) and appending at most one entry of that exchange; the entries of
   every other exchange, in flight or ended, and the greeting stay as they
   are, and so does the exchange's own user entry. *)
EntriesOf(box, f) == SelectSeq(box, LAMBDA x : x.ex = f)

C15_SettlementStep ==
    \A e \in Exchanges :
        exch'[e] # exch[e] =>
            LET cleared == RemoveIndicator(transcript, exch[e].thinking)
            IN  /\ \/ transcript' = cleared
                   \/ /\ Len(transcript') = Len(cleared) + 1
                      /\ SubSeq(transcript', 1, Len(cleared)) = cleared
                      /\ transcript'[Len(transcript')].ex = e
                /\ \A f \in (Exchanges \ {e}) \cup {0} :
                       EntriesOf(transcript', f) = EntriesOf(transcript, f)
                /\ \A f \in Exchanges \ {e} : exch'[f] = exch[f]
                /\ ChatboxContains(transcript', exch[e].user)

C15_NoInterference == [][C15_SettlementStep]_vars

\* The later exchange has ended while the earlier one is still waiting: the
\* earlier one kept its user entry and its indicator.
C15_Witness ==
    /\ Len(exch) = 2
    /\ Done(2)
    /\ Cardinality(TerminalAt(2)) = 1
    /\ exch[1].pc = "fetch"
    /\ Cardinality(IndicatorAt(1)) = 1
    /\ Cardinality(UserAt(1)) = 1

----------------------------------------------------------------------------
(* C16: exchanges are not serialized.  Nothing holds a submit back while
   earlier exchanges are in flight: with a non-blank input a submit that
   opens a new exchange is possible in every state (up to the bound on
   exchanges), and every exchange in flight can take its next step whatever
   the state of the others.  So two exchanges can be in flight at once and
   the later one can end first, its terminal entry ahead of the earlier
   one's. *)
C16_NotSerialized ==
    /\ (~IsBlank(userInput) /\ Len(exch) < MaxExchanges)
           => ENABLED (sendMessage /\ Len(exch') = Len(exch) + 1)
    /\ \A e \in InFlight : ENABLED Settles(e)

\* Two replies shown out of submission order: both exchanges got their reply
\* rendered, the second one's above the first one's.
C16_Witness ==
    /\ Len(exch) = 2
    /\ \A e \in Exchanges :
           /\ Done(e)
           /\ OkResponse(e)
           /\ \A i \in TerminalAt(e) : Role(transcript[i]) = "bot"
    /\ \E i \in UserAt(2), j \in TerminalAt(1) : i < j
    /\ \E i \in TerminalAt(2), j \in TerminalAt(1) : i < j

----------------------------------------------------------------------------
(* C17: there is no timeout and no cancellation.  An exchange leaves the wait
   for its fetch only in a step in which that fetch resolves or rejects; as
   long as it waits, its indicator is in the chatbox and it has no terminal
   entry, whatever submits, toggles, timer callbacks and steps of other
   exchanges happen meanwhile. *)
C17_WaitingKeepsIndicator ==
    \A e \in Exchanges :
        exch[e].pc = "fetch" =>
            /\ ChatboxContains(transcript, exch[e].thinking)
            /\ TerminalAt(e) = {}

C17_OnlyTheFetchEndsTheWait ==
    \A e \in Exchanges :
        /\ (exch[e].pc = "fetch" /\ exch'[e].pc # "fetch") =>
               \/ \E r \in Responses : fetchResolves(e, r)
               \/ \E m \in FetchErrors : fetchRejects(e, m)
        /\ (exch[e].pc = "fetch" /\ exch'[e].pc = "fetch") =>
               /\ ChatboxContains(transcript', exch[e].thinking)
               /\ \A i \in 1..Len(transcript') :
                      transcript'[i].ex = e =>
                          transcript'[i].node \in {exch[e].user, exch[e].thinking}

C17_NoTimeout == [][C17_OnlyTheFetchEndsTheWait]_vars /\ []C17_WaitingKeepsIndicator

\* The first request is still open after a later exchange has ended in the
\* catch block, the panel was opened and its focus callback has run, and the
\* user has typed again.
C17_Witness ==
    /\ variant = "popup"
    /\ ~hidden
    /\ timers = 0
    /\ userInput # <<>>
    /\ Len(exch) = 2
    /\ exch[1].pc = "fetch"
    /\ Done(2) /\ ~GotResponse(2)
    /\ \E i \in IndicatorAt(1), j \in TerminalAt(2) : i < j

----------------------------------------------------------------------------
(* C18: one fetch per non-empty submit and no retry.  In every state the
   number of fetch calls made equals the number of non-empty submits so far
   (the exchanges opened, one user entry each); the number changes only in a
   submit with a non-blank input, by one, and never in a step that reports a
   failure. *)
UserEntries == {i \in Positions : Role(transcript[i]) = "user"}

C18_FetchesMatchSubmits ==
    /\ fetches = Len(exch)
    /\ fetches = Cardinality(UserEntries)

C18_FetchOnlyOnSubmit ==
    fetches' # fetches =>
        /\ ~IsBlank(userInput)
        /\ sendMessage
        /\ fetches' = fetches + 1
        /\ Len(exch') = Len(exch) + 1

C18_OneFetchPerSubmit == [][C18_FetchOnlyOnSubmit]_vars /\ []C18_FetchesMatchSubmits

\* Two submits, both failed (a rejected fetch and an error status), and still
\* two fetch calls.
C18_Witness ==
    /\ fetches = 2
    /\ Len(exch) = 2
    /\ Done(1) /\ ~GotResponse(1)
    /\ Done(2) /\ ErrorResponse(2)
    /\ \A e \in Exchanges : Failed(e)

----------------------------------------------------------------------------
(* C19: the panel starts closed and only toggleChat changes whether it is
   shown: a submit, every step of an exchange, whatever its outcome, typing
   and the delayed focus callback leave it as it is.  The exchanges do not
   depend on it either: with the panel closed as with the panel open, a
   non-blank input can be submitted and every exchange in flight can take its
   next step. *)
C19_StartsClosed == hidden = TRUE

C19_OnlyToggleChanges ==
    /\ hidden' # hidden => toggleChat
    /\ (sendMessage \/ focusTimeout \/ (\E s \in Inputs : Type(s))
            \/ (\E e \in Exchanges : Settles(e))) => hidden' = hidden

C19_ExchangesIgnorePanel ==
    \A e \in InFlight : ENABLED (Settles(e) /\ hidden' = hidden)

C19_PanelOnlyByToggle ==
    C19_StartsClosed /\ [][C19_OnlyToggleChanges]_vars /\ []C19_ExchangesIgnorePanel

\* The panel was opened and closed again, the focus callback is still to
\* come; meanwhile one exchange has ended and the body of the other one's
\* response is being read.
C19_Witness ==
    /\ variant = "popup"
    /\ hidden
    /\ timers = 1
    /\ Len(exch) = 2
    /\ Done(1)
    /\ exch[2].pc \in {"json", "errorJson"}

----------------------------------------------------------------------------
(* C20: the controller writes the input field in one place, the part of a
   submit with a non-blank input that runs before the fetch, and writes the
   empty string there.  Every other change of the field is the user typing;
   no step of an exchange after the dispatch, whatever the outcome, and no
   toggle or timer callback changes it, so what the user typed while an
   exchange was in flight is still in the field when the exchange has
   ended. *)
C20_SubmitClears ==
    (~IsBlank(userInput) /\ sendMessage) => userInput' = <<>>

C20_OthersKeepInput ==
    /\ userInput' # userInput =>
           \/ \E s \in Inputs : Type(s)
           \/ ~IsBlank(userInput) /\ sendMessage
    /\ ((\E e \in Exchanges : Settles(e)) \/ toggleChat \/ focusTimeout)
           => userInput' = userInput

C20_InputWrittenOnlyOnSubmit == [][C20_SubmitClears /\ C20_OthersKeepInput]_vars

\* Text has been typed after the submits while one exchange waits for its
\* fetch and the other for its body; every step of either keeps the text.
C20_Witness ==
    /\ ~IsBlank(userInput)
    /\ Len(exch) = 2
    /\ exch[1].pc = "fetch"
    /\ exch[2].pc = "json"
    /\ \A e \in Exchanges : ENABLED (Settles(e) /\ userInput' = userInput)

====
